---- MODULE Spec2Model ----
(***************************************************************************)
(* Node handlers of active-i-creative: twelve handlers, each exposing      *)
(* process(inputs, config) -> {status, outputs | error}.                   *)
(*                                                                         *)
(* A call is one atomic action: the handler body is an operator that maps  *)
(* the arguments, the file system, the uuid source, the openai module      *)
(* global and the outcomes of the external operations (x) to the returned  *)
(* envelope and the new file system.  After a call the caller takes the    *)
(* envelope (Collect) and may call again.  Calls made by several threads   *)
(* at once are modelled apart (SpecConc), statement by statement where     *)
(* they touch what the threads share.                                      *)
(***************************************************************************)
EXTENDS Integers, Sequences, FiniteSets, TLC

VARIABLES fs,              \* set of paths of the files that exist
          uuidCounter,     \* number of uuid.uuid4() values drawn so far
          openai_api_key,  \* the module global openai.api_key
          pc,              \* "idle" | "returned"
          ncalls,          \* calls made so far
          last,            \* record of the call that has just returned
          returned,        \* output paths returned by successful calls
          outputDir,       \* the output directory exists
          removed,         \* the output directory has been removed since load
          inflight         \* the calls running concurrently, one per thread

vars == <<fs, uuidCounter, openai_api_key, pc, ncalls, last, returned,
          outputDir, removed, inflight>>

\* Bounds of the model.
MaxCalls == 2
VideoDuration == 3
MaxSide == 3        \* largest width or height of an image or a logo
MaxOffset == 2      \* largest offset component, in absolute value
MaxThreads == 2     \* threads calling process at the same time

-----------------------------------------------------------------------------
(* Values *)

\* A path: directory, file-name stem, uuid token (0 for caller files), suffix.
Path(d, s, t, e) == [dir |-> d, stem |-> s, tok |-> t, ext |-> e]

NonePath  == Path("", "None", 0, "")    \* key missing or null: dict.get gives None
EmptyPath == Path("", "", 0, "")        \* the empty string

IMG      == Path("in", "photo", 0, ".PNG")   \* existing image, upper-case suffix
TXT      == Path("in", "notes", 0, ".txt")   \* existing file, not a media suffix
VID      == Path("in", "clip", 0, ".mp4")    \* existing video
AUD      == Path("in", "song", 0, ".mp3")    \* existing audio
GONE_IMG == Path("in", "gone", 0, ".png")    \* no such file
GONE_VID == Path("in", "gone", 0, ".mp4")
GONE_AUD == Path("in", "gone", 0, ".mp3")

InputFiles == {IMG, TXT, VID, AUD}

\* A numeric config value: missing key, null, unparsable text, or a number.
Num(v)     == [k |-> "num", v |-> v]
NumMissing == [k |-> "missing", v |-> 0]
NumNull    == [k |-> "null", v |-> 0]
NumBad     == [k |-> "bad", v |-> 0]

\* A string config value: the text, or one of two sentinels.
StrMissing == "<missing>"
StrNull    == "<null>"

\* str.lower() on the suffixes in use.
Lower(e) == CASE e = ".PNG" -> ".png"
              [] e = ".JPG" -> ".jpg"
              [] e = ".MP4" -> ".mp4"
              [] OTHER -> e

IMAGE_EXTS == {".jpg", ".jpeg", ".png", ".bmp", ".gif", ".tiff"}
VIDEO_EXTS == {".mp4", ".avi", ".mov", ".mkv"}
AUDIO_EXTS == {".mp3", ".wav", ".aac", ".ogg", ".m4a"}

\* Python truthiness of a path value, and `a or b`.
Truthy(p) == p \notin {NonePath, EmptyPath}
Or(a, b)  == IF Truthy(a) THEN a ELSE b
TruthyStr(s) == s \notin {StrMissing, StrNull, ""}
OrStr(a, b)  == IF TruthyStr(a) THEN a ELSE b

\* os.path.exists
ExistsAlways(files, p) == TRUE
Exists(files, p) == p \in files

\* path.lower().endswith(allow-list)
EndsWith(p, exts) == Lower(p.ext) \in exts

\* dict.get(key, default) and float()/int() of the value
GetNum(n, d) == IF n.k = "missing" THEN Num(d) ELSE n
GetStr(s, d) == IF s = StrMissing THEN d ELSE s
Parses(n)   == n.k = "num"

\* A float with a fractional part, v + 0.5 for v >= 0; int() of a number
\* drops the fractional part, int() of unparsable text raises.
NumFloat(v)  == [k |-> "float", v |-> v]
IntParses(n) == n.k \in {"num", "float"}
int(n)       == n.v

\* uuid.uuid4(): the n-th value drawn is a value not drawn before.
Uuid4Repeat(n) == 1
Uuid4(n) == n + 1

OUTPUT_FOLDER == "output"
\* The output directory itself, as a path of the file system.
OUTPUT_DIR == [dir |-> "", stem |-> OUTPUT_FOLDER, tok |-> 0, ext |-> ""]
\* os.makedirs(os.path.dirname(output_path), exist_ok=True)
makedirs(files) == files \cup {OUTPUT_DIR}
OutPathCwd(prefix, t, e) == Path(".", prefix, t, e)
\* os.path.join(OUTPUT_FOLDER, prefix + uuid + suffix)
OutPath(prefix, t, e) == Path(OUTPUT_FOLDER, prefix, t, e)
TempAudioFixed(t) == Path("/tmp", "temp-audio-", 0, ".m4a")
TempAudio(t) == Path("/tmp", "temp-audio-", t, ".m4a")

-----------------------------------------------------------------------------
(* Envelopes and outcomes *)

ErrWithOutputs(msg) == [status |-> "error", error |-> msg, outputs |-> msg]
Err(msg) == [status |-> "error", error |-> msg]
Ok(outs) == [status |-> "success", outputs |-> outs]
NoResult == [status |-> "none"]

\* Outcomes of the external operations of one call: failAt = k makes the k-th
\* external operation raise (0: none does); partial: a failed write leaves the
\* file it had begun; temp: a failed video write leaves its temporary audio
\* file; http: what the captioning service answers.
X(f, p, t, h) == [failAt |-> f, partial |-> p, temp |-> t, http |-> h]
NoFail == X(0, FALSE, FALSE, "ok")

\* What a body evaluates to: it returns an envelope or raises; files, uuid
\* counter and openai.api_key after it; the number of external operations it
\* attempted; the parameter values it read.
Outcome(raised, result, files, n, key, calls, used) ==
    [raised |-> raised, result |-> result, fs |-> files, uuid |-> n,
     key |-> key, calls |-> calls, used |-> used]
Return(result, files, n, key, calls, used) ==
    Outcome(FALSE, result, files, n, key, calls, used)
Raise(files, n, key, calls, used) ==
    Outcome(TRUE, NoResult, files, n, key, calls, used)

\* try: ... except Exception as e: return {"status": "error", "error": ...}
Uncaught(o) == o
CatchAll(o) ==
    IF o.raised
    THEN [o EXCEPT !.raised = FALSE, !.result = Err("Error processing node")]
    ELSE o

\* A helper (apply_effect, trim_video, ...) gives True or False, never raises.
Helper(ok, files, n, calls) == [ok |-> ok, fs |-> files, uuid |-> n, calls |-> calls]

\* img.save(output_path) inside a helper, as its k-th external operation: it
\* raises when the directory of output_path does not exist or the encoder
\* fails (a failed save may leave the file it had begun), and the helper's
\* except clause turns that into False.
Save(files, n, output_path, k, x) ==
    IF OUTPUT_DIR \notin files THEN Helper(FALSE, files, n, k)
    ELSE IF x.failAt = k
         THEN Helper(FALSE, IF x.partial THEN files \cup {output_path} ELSE files, n, k)
    ELSE Helper(TRUE, files \cup {output_path}, n, k)

-----------------------------------------------------------------------------
(* image/effect_image.py *)

EFFECTS == {"grayscale", "sepia", "invert", "contrast", "brightness"}

AnyEffect(effect) == TRUE
\* The if/elif chain over the effect names; its else branch returns False.
KnownEffect(effect) == effect \in EFFECTS

\* External operations: 1 Image.open().convert, 2 the effect, 3 img.save.
apply_effect(files, n, image_path, output_path, effect, x) ==
    IF x.failAt = 1 THEN Helper(FALSE, files, n, 1)
    ELSE IF ~KnownEffect(effect) THEN Helper(FALSE, files, n, 1)
    ELSE IF x.failAt = 2 THEN Helper(FALSE, files, n, 2)
    ELSE Save(makedirs(files), n, output_path, 3, x)

EffectImageBody(inputs, config, files, n, key, x) ==
    LET image_path == Or(inputs.image_path, config.image_path)
        effect     == GetStr(config.effect, "grayscale")
        intensity  == GetNum(config.intensity, 1)
        used == [image_path |-> image_path, effect |-> effect, intensity |-> intensity]
    IN  IF ~Parses(intensity) THEN Raise(files, n, key, 0, used)
        ELSE IF ~Truthy(image_path) \/ ~Exists(files, image_path)
             THEN Return(Err("Input image not found"), files, n, key, 0, used)
        ELSE IF ~EndsWith(image_path, IMAGE_EXTS)
             THEN Return(Err("Invalid image file format"), files, n, key, 0, used)
        ELSE LET output_path == OutPath("effect_" \o effect \o "_", Uuid4(n), image_path.ext)
                 h == apply_effect(files, n + 1, image_path, output_path, effect, x)
             IN  IF ~h.ok \/ ~Exists(h.fs, output_path)
                 THEN Return(Err("Failed to apply effect or output file not created"),
                             h.fs, h.uuid, key, h.calls, used)
                 ELSE Return(Ok([output_path |-> output_path]),
                             h.fs, h.uuid, key, h.calls, used)

EffectImageProcess(inputs, config, files, n, key, x) ==
    CatchAll(EffectImageBody(inputs, config, files, n, key, x))

-----------------------------------------------------------------------------
(* image/resize_image.py *)

\* img.size of the caller's image
Size(image_path) == <<100, 100>>

\* The size an image of size `size` has after fitting it into width x height
\* with its aspect ratio kept (what Image.thumbnail would do).
ResizeKeepAspect(size, width, height) ==
    IF width * size[2] <= height * size[1]
    THEN <<width, (size[2] * width) \div size[1]>>
    ELSE <<(size[1] * height) \div size[2], height>>
\* img.resize((width, height), LANCZOS): the size of the image it returns
Resize(size, width, height) == <<width, height>>

\* External operations: 1 Image.open, 2 img.resize (it rejects a side below
\* 1), 3 resized.save.  The record of a successful helper also carries the
\* size of the image that was saved.
resize_image(files, n, image_path, output_path, width, height, x) ==
    IF x.failAt = 1 THEN Helper(FALSE, files, n, 1)
    ELSE IF x.failAt = 2 \/ width < 1 \/ height < 1 THEN Helper(FALSE, files, n, 2)
    ELSE Save(makedirs(files), n, output_path, 3, x)
            @@ [size |-> Resize(Size(image_path), width, height)]

ResizeImageBody(inputs, config, files, n, key, x) ==
    LET image_path == Or(inputs.image_path, config.image_path)
        width  == config.width
        height == config.height
        used == [image_path |-> image_path, width |-> width, height |-> height]
    IN  IF width.k \in {"missing", "null"} \/ height.k \in {"missing", "null"}
        THEN Return(Err("Both width and height must be specified."), files, n, key, 0, used)
        ELSE IF ~IntParses(width) \/ ~IntParses(height) THEN Raise(files, n, key, 0, used)
        ELSE IF ~Truthy(image_path) \/ ~Exists(files, image_path)
             THEN Return(Err("Input image not found"), files, n, key, 0, used)
        ELSE IF ~EndsWith(image_path, IMAGE_EXTS)
             THEN Return(Err("Invalid image file format"), files, n, key, 0, used)
        ELSE LET output_path == OutPath("resized_", Uuid4(n), image_path.ext)
                 h == resize_image(files, n + 1, image_path, output_path,
                                   int(width), int(height), x)
             IN  IF ~h.ok \/ ~Exists(h.fs, output_path)
                 THEN Return(Err("Failed to resize image or output file not created"),
                             h.fs, h.uuid, key, h.calls, used)
                 ELSE Return(Ok([output_path |-> output_path]),
                             h.fs, h.uuid, key, h.calls, used)
                         @@ [written |-> h.size]

ResizeImageProcess(inputs, config, files, n, key, x) ==
    CatchAll(ResizeImageBody(inputs, config, files, n, key, x))

-----------------------------------------------------------------------------
(* image/logo_overlay_image.py and image/text_overlay_image.py *)

\* An offset config value: missing key, a pair, text "(x,y)", or text that
\* int() rejects.
Offset(k, a, b) == [k |-> k, x |-> a, y |-> b]
OffMissing == Offset("missing", 0, 0)
\* config.get("offset", (0, 0)), then tuple(map(int, ...)) when it is a str
OffsetParses(o) == o.k # "badstr"

\* The position names of pos_map.
POSITIONS == {"center", "top_left", "top_right", "bottom_left", "bottom_right",
              "top_center", "bottom_center", "middle_left", "middle_right"}

\* pos_map[position]; // is floor division, as \div is.
pos_map(W, H, w, h, position) ==
    CASE position = "center"        -> <<(W - w) \div 2, (H - h) \div 2>>
      [] position = "top_left"      -> <<0, 0>>
      [] position = "top_right"     -> <<W - w, 0>>
      [] position = "bottom_left"   -> <<0, H - h>>
      [] position = "bottom_right"  -> <<W - w, H - h>>
      [] position = "top_center"    -> <<(W - w) \div 2, 0>>
      [] position = "bottom_center" -> <<(W - w) \div 2, H - h>>
      [] position = "middle_left"   -> <<0, (H - h) \div 2>>
      [] position = "middle_right"  -> <<W - w, (H - h) \div 2>>

max(a, b) == IF a >= b THEN a ELSE b
min(a, b) == IF a <= b THEN a ELSE b

\* pos_map.get(position, pos_map["bottom_right"]) plus the offset
get_position_unclamped(img_size, logo_size, position, offset) ==
    LET base == pos_map(img_size[1], img_size[2], logo_size[1], logo_size[2],
                        IF position \in POSITIONS THEN position ELSE "bottom_right")
    IN  <<base[1] + offset[1], base[2] + offset[2]>>

\* get_position of logo_overlay_image.py: the paste offset of the logo
get_position(img_size, logo_size, position, offset) ==
    LET W == img_size[1]
        H == img_size[2]
        w == logo_size[1]
        h == logo_size[2]
        base == pos_map(W, H, w, h,
                        IF position \in POSITIONS THEN position ELSE "bottom_right")
        x == base[1] + offset[1]
        y == base[2] + offset[2]
    IN  <<max(0, min(x, W - w)), max(0, min(y, H - h))>>

\* get_position of text_overlay_image.py: the drawing position of the text;
\* an unknown position name falls back to "center"
text_get_position(img_size, text_size, position, offset) ==
    LET W == img_size[1]
        H == img_size[2]
        w == text_size[1]
        h == text_size[2]
        base == pos_map(W, H, w, h,
                        IF position \in POSITIONS THEN position ELSE "center")
        x == base[1] + offset[1]
        y == base[2] + offset[2]
    IN  <<max(0, min(x, W - w)), max(0, min(y, H - h))>>

\* External operations: 1 Image.open(image), 2 Image.open(logo),
\* 3 resize/paste/convert, 4 combined.save.
overlay_logo(files, n, image_path, logo_path, output_path, x) ==
    IF x.failAt \in {1, 2, 3} THEN Helper(FALSE, files, n, x.failAt)
    ELSE Save(makedirs(files), n, output_path, 4, x)

LogoOverlayImageBody(inputs, config, files, n, key, x) ==
    LET image_path == Or(inputs.image_path, config.image_path)
        logo_path  == Or(inputs.logo_path, config.logo_path)
        offset     == config.offset
        logo_scale == GetNum(config.logo_scale, 1)
        opacity    == GetNum(config.opacity, 1)
        used == [image_path |-> image_path, logo_path |-> logo_path, offset |-> offset]
    IN  IF ~OffsetParses(offset) \/ ~Parses(logo_scale) \/ ~Parses(opacity)
        THEN Raise(files, n, key, 0, used)
        ELSE IF ~Truthy(image_path) \/ ~Exists(files, image_path)
             THEN Return(Err("Input image not found"), files, n, key, 0, used)
        ELSE IF ~Truthy(logo_path) \/ ~Exists(files, logo_path)
             THEN Return(Err("Logo image not found"), files, n, key, 0, used)
        ELSE IF ~EndsWith(image_path, IMAGE_EXTS)
             THEN Return(Err("Invalid image file format"), files, n, key, 0, used)
        ELSE IF ~EndsWith(logo_path, IMAGE_EXTS)
             THEN Return(Err("Invalid logo file format"), files, n, key, 0, used)
        ELSE LET output_path == OutPath("logo_", Uuid4(n), image_path.ext)
                 h == overlay_logo(files, n + 1, image_path, logo_path, output_path, x)
             IN  IF ~h.ok \/ ~Exists(h.fs, output_path)
                 THEN Return(Err("Failed to overlay logo or output file not created"),
                             h.fs, h.uuid, key, h.calls, used)
                 ELSE Return(Ok([output_path |-> output_path]),
                             h.fs, h.uuid, key, h.calls, used)

LogoOverlayImageProcess(inputs, config, files, n, key, x) ==
    CatchAll(LogoOverlayImageBody(inputs, config, files, n, key, x))

\* External operations: 1 Image.open().convert, 2 drawing the text layer,
\* 3 combined.save.
overlay_text(files, n, image_path, output_path, x) ==
    IF x.failAt \in {1, 2} THEN Helper(FALSE, files, n, x.failAt)
    ELSE Save(makedirs(files), n, output_path, 3, x)

TextOverlayImageBody(inputs, config, files, n, key, x) ==
    LET image_path == Or(inputs.image_path, config.image_path)
        font_size  == GetNum(config.font_size, 40)
        offset     == config.offset
        opacity    == GetNum(config.opacity, 1)
        used == [image_path |-> image_path, offset |-> offset, font_size |-> font_size]
    IN  IF ~Parses(font_size) \/ ~OffsetParses(offset) \/ ~Parses(opacity)
        THEN Raise(files, n, key, 0, used)
        ELSE IF ~Truthy(image_path) \/ ~Exists(files, image_path)
             THEN Return(Err("Input image not found"), files, n, key, 0, used)
        ELSE IF ~EndsWith(image_path, IMAGE_EXTS)
             THEN Return(Err("Invalid image file format"), files, n, key, 0, used)
        ELSE LET output_path == OutPath("overlay_", Uuid4(n), image_path.ext)
                 h == overlay_text(files, n + 1, image_path, output_path, x)
             IN  IF ~h.ok \/ ~Exists(h.fs, output_path)
                 THEN Return(Err("Failed to overlay text or output file not created"),
                             h.fs, h.uuid, key, h.calls, used)
                 ELSE Return(Ok([output_path |-> output_path]),
                             h.fs, h.uuid, key, h.calls, used)

TextOverlayImageProcess(inputs, config, files, n, key, x) ==
    CatchAll(TextOverlayImageBody(inputs, config, files, n, key, x))

-----------------------------------------------------------------------------
(* image/remove_bg_image.py *)

\* External operations: 1 Image.open, 2 rembg.remove, 3 output_image.save.
\* There is no helper: whatever raises is caught by process itself.  The
\* output directory is made when the module is loaded and not again: save
\* raises when it is missing.
RemoveBGBody(inputs, config, files, n, key, x) ==
    LET image_path == Or(inputs.image_path, config.image_path)
        used == [image_path |-> image_path]
    IN  IF ~Truthy(image_path) \/ ~Exists(files, image_path)
        THEN Return(Err("Input image not found"), files, n, key, 0, used)
        ELSE LET output_path == OutPath("nobg_", Uuid4(n), ".png")
             IN  IF x.failAt \in {1, 2} THEN Raise(files, n + 1, key, x.failAt, used)
                 ELSE IF OUTPUT_DIR \notin files THEN Raise(files, n + 1, key, 3, used)
                 ELSE IF x.failAt = 3
                      THEN Raise(IF x.partial THEN files \cup {output_path} ELSE files,
                                 n + 1, key, 3, used)
                 ELSE Return(Ok([output_path |-> output_path]),
                             files \cup {output_path}, n + 1, key, 3, used)

RemoveBGProcess(inputs, config, files, n, key, x) ==
    CatchAll(RemoveBGBody(inputs, config, files, n, key, x))

-----------------------------------------------------------------------------
(* ai-tools/auto_caption_image.py *)

GEMINI_KEY == "AIzaSy-literal"     \* the key literal written in process

\* External operations: 1 open(image_path).read(), 2 requests.post.  The
\* answer x.http is "ok" (a caption), "non200", "nocaption" (an empty
\* caption) or "malformed" (json()/indexing raises).  The key sent is the
\* literal; inputs.api_key is not read.
AutoCaptionImageBody(inputs, config, files, n, key, x) ==
    LET image_path == Or(inputs.image_path, config.image_path)
        api_key    == GEMINI_KEY
        used == [image_path |-> image_path, api_key |-> api_key]
    IN  IF ~Truthy(image_path) \/ ~Exists(files, image_path)
        THEN Return(Err("Input image not found."), files, n, key, 0, used)
        ELSE IF x.failAt \in {1, 2} THEN Raise(files, n, key, x.failAt, used)
        ELSE IF x.http = "non200"
             THEN Return(Err("Gemini API error"), files, n, key, 2, used)
        ELSE IF x.http = "malformed" THEN Raise(files, n, key, 2, used)
        ELSE IF x.http = "nocaption"
             THEN Return(Err("No caption generated."), files, n, key, 2, used)
        ELSE Return(Ok([caption |-> "a caption"]), files, n, key, 2, used)

AutoCaptionImageProcess(inputs, config, files, n, key, x) ==
    CatchAll(AutoCaptionImageBody(inputs, config, files, n, key, x))

-----------------------------------------------------------------------------
(* ai-tools/generate_image_from_prompt.py *)

\* External operations: 1 openai.Image.create, 2 requests.get(image_url),
\* 3 open(output_path, "wb") and f.write.  The status of the download's
\* answer (x.http) is not read: whatever body came back is written.
\* openai.api_key is assigned before
\* the first of them.  environ is os.getenv("OPENAI_API_KEY", ""); the call
\* record keeps it next to the config values, under the variable's name.
GenerateImageBody(inputs, config, environ, files, n, key, x) ==
    LET prompt  == OrStr(inputs.prompt, config.prompt)
        api_key == OrStr(OrStr(inputs.api_key, config.api_key), environ)
        used == [prompt |-> prompt, api_key |-> api_key]
    IN  IF ~TruthyStr(prompt)
        THEN Return(Err("Prompt is required."), files, n, key, 0, used)
        ELSE IF ~TruthyStr(api_key)
             THEN Return(Err("OpenAI API key is required."), files, n, key, 0, used)
        ELSE IF x.failAt \in {1, 2} THEN Raise(files, n, api_key, x.failAt, used)
        ELSE LET output_path == OutPath("gen_", Uuid4(n), ".png")
             IN  IF OUTPUT_DIR \notin files THEN Raise(files, n + 1, api_key, 3, used)
                 ELSE IF x.failAt = 3
                 THEN Raise(IF x.partial THEN files \cup {output_path} ELSE files,
                            n + 1, api_key, 3, used)
                 ELSE Return(Ok([output_path |-> output_path, image_url |-> "https://img"]),
                             files \cup {output_path}, n + 1, api_key, 3, used)

GenerateImageProcess(inputs, config, environ, files, n, key, x) ==
    CatchAll(GenerateImageBody(inputs, config, environ, files, n, key, x))

-----------------------------------------------------------------------------
(* ai-tools/remove_object.py *)

\* Path(image_path).suffix or ".png"
SuffixOr(p, d) == IF p.ext = "" THEN d ELSE p.ext

\* External operations: 1 Image.open(image), 2 Image.open(mask) and resize,
\* 3 ModelManager and the model run, 4 result.save.
RemoveObjectBody(inputs, config, files, n, key, x) ==
    LET image_path == Or(inputs.image_path, config.image_path)
        mask_path  == Or(inputs.mask_path, config.mask_path)
        used == [image_path |-> image_path, mask_path |-> mask_path]
    IN  IF ~Truthy(image_path) \/ ~Exists(files, image_path)
        THEN Return(Err("Input image not found."), files, n, key, 0, used)
        ELSE IF ~Truthy(mask_path) \/ ~Exists(files, mask_path)
             THEN Return(Err("Mask image not found."), files, n, key, 0, used)
        ELSE IF x.failAt \in {1, 2, 3} THEN Raise(files, n, key, x.failAt, used)
        ELSE LET output_path == OutPath("inpaint_", Uuid4(n), SuffixOr(image_path, ".png"))
             IN  IF OUTPUT_DIR \notin files THEN Raise(files, n + 1, key, 4, used)
                 ELSE IF x.failAt = 4
                 THEN Raise(IF x.partial THEN files \cup {output_path} ELSE files,
                            n + 1, key, 4, used)
                 ELSE Return(Ok([output_path |-> output_path]),
                             files \cup {output_path}, n + 1, key, 4, used)

RemoveObjectProcess(inputs, config, files, n, key, x) ==
    CatchAll(RemoveObjectBody(inputs, config, files, n, key, x))

-----------------------------------------------------------------------------
(* Video helpers: write_videofile *)

\* final.write_videofile(output_path, temp_audiofile=/tmp/temp-audio-<uuid>.m4a,
\* remove_temp=True): on success the output exists and the temporary audio
\* file is gone; when it raises, the output begun (x.partial) and the
\* temporary audio file (x.temp) may be left.  One uuid is drawn for the
\* temporary file name.  It is the k-th external operation of its helper.
write_videofile(files, n, output_path, k, x) ==
    IF OUTPUT_DIR \notin files THEN Helper(FALSE, files, n + 1, k)
    ELSE IF x.failAt = k
    THEN Helper(FALSE,
                files \cup (IF x.partial THEN {output_path} ELSE {})
                      \cup (IF x.temp THEN {TempAudio(Uuid4(n))} ELSE {}),
                n + 1, k)
    ELSE Helper(TRUE, files \cup {output_path}, n + 1, k)

-----------------------------------------------------------------------------
(* video/add_bgm.py *)

\* External operations: 1 VideoFileClip, 2 AudioFileClip, 3 volume, loop and
\* composite, 4 write_videofile.
add_bgm(files, n, video_path, music_path, output_path, x) ==
    IF x.failAt \in {1, 2, 3} THEN Helper(FALSE, files, n, x.failAt)
    ELSE write_videofile(makedirs(files), n, output_path, 4, x)

\* video_path, music_path and the volumes are read from config alone.
AddBGMBody(inputs, config, files, n, key, x) ==
    LET video_path   == config.video_path
        music_path   == config.music_path
        music_volume == GetNum(config.music_volume, 1)
        video_volume == GetNum(config.video_volume, 1)
        used == [video_path |-> video_path, music_path |-> music_path]
    IN  IF ~Parses(music_volume) \/ ~Parses(video_volume)
        THEN Raise(files, n, key, 0, used)
        ELSE IF ~Truthy(video_path) \/ ~Exists(files, video_path)
             THEN Return(Err("Input video not found"), files, n, key, 0, used)
        ELSE IF ~Truthy(music_path) \/ ~Exists(files, music_path)
             THEN Return(Err("Music file not found"), files, n, key, 0, used)
        ELSE IF ~EndsWith(video_path, VIDEO_EXTS)
             THEN Return(Err("Invalid video file format"), files, n, key, 0, used)
        ELSE IF ~EndsWith(music_path, AUDIO_EXTS)
             THEN Return(Err("Invalid music file format"), files, n, key, 0, used)
        ELSE LET output_path == OutPath("bgm_", Uuid4(n), video_path.ext)
                 h == add_bgm(files, n + 1, video_path, music_path, output_path, x)
             IN  IF ~h.ok \/ ~Exists(h.fs, output_path)
                 THEN Return(Err("Failed to add background music or output file not created"),
                             h.fs, h.uuid, key, h.calls, used)
                 ELSE Return(Ok([output_path |-> output_path]),
                             h.fs, h.uuid, key, h.calls, used)

AddBGMProcess(inputs, config, files, n, key, x) ==
    CatchAll(AddBGMBody(inputs, config, files, n, key, x))

-----------------------------------------------------------------------------
(* video/merge.py *)

\* config.get("video_paths"): missing key, a list of paths, or a str.
Paths(k, v) == [k |-> k, v |-> v]

\* One pass of the checking loop: os.path.exists(None) raises TypeError.
PathCheck(files, p) ==
    IF p = NonePath THEN "raise"
    ELSE IF ~Exists(files, p) THEN "notfound"
    ELSE IF ~EndsWith(p, VIDEO_EXTS) THEN "badext"
    ELSE "ok"

CheckFirstPath(files, seq) == PathCheck(files, seq[1])
\* The loop stops at the first path that fails a check.
CheckPaths(files, seq) ==
    LET bad == {i \in 1..Len(seq) : PathCheck(files, seq[i]) # "ok"}
    IN  IF bad = {} THEN "ok"
        ELSE PathCheck(files, seq[CHOOSE i \in bad : \A j \in bad : i <= j])

\* External operations: one VideoFileClip per path, then
\* concatenate_videoclips, then write_videofile.
merge_videos(files, n, video_paths, output_path, x) ==
    IF x.failAt \in 1..(Len(video_paths) + 1) THEN Helper(FALSE, files, n, x.failAt)
    ELSE write_videofile(makedirs(files), n, output_path, Len(video_paths) + 2, x)

TooFewPathsEmptyOnly(video_paths) ==
    video_paths.k # "list" \/ Len(video_paths.v) < 1
\* not video_paths or not isinstance(video_paths, list) or len(video_paths) < 2
TooFewPaths(video_paths) ==
    video_paths.k # "list" \/ Len(video_paths.v) < 2

MergeBody(inputs, config, files, n, key, x) ==
    LET video_paths == config.video_paths
        used == [video_paths |-> video_paths]
    IN  IF TooFewPaths(video_paths)
        THEN Return(Err("At least two video paths must be provided for merging."),
                    files, n, key, 0, used)
        ELSE LET c == CheckPaths(files, video_paths.v)
             IN  IF c = "raise" THEN Raise(files, n, key, 0, used)
                 ELSE IF c = "notfound"
                      THEN Return(Err("Input video not found"), files, n, key, 0, used)
                 ELSE IF c = "badext"
                      THEN Return(Err("Invalid file format"), files, n, key, 0, used)
                 ELSE LET output_path == OutPath("merged_", Uuid4(n), video_paths.v[1].ext)
                          h == merge_videos(files, n + 1, video_paths.v, output_path, x)
                      IN  IF ~h.ok \/ ~Exists(h.fs, output_path)
                          THEN Return(Err("Failed to merge videos or output file not created"),
                                      h.fs, h.uuid, key, h.calls, used)
                          ELSE Return(Ok([output_path |-> output_path]),
                                      h.fs, h.uuid, key, h.calls, used)

MergeProcess(inputs, config, files, n, key, x) ==
    CatchAll(MergeBody(inputs, config, files, n, key, x))

-----------------------------------------------------------------------------
(* video/trim.py *)

\* video.duration of the caller's clip
Duration(video_path) == VideoDuration

\* External operations: 1 VideoFileClip, 2 video.subclip, 3 write_videofile.
\* end_time is a numeric value whose kind "missing"/"null" stands for None.
\* if end_time is None or end_time > video.duration: end_time = video.duration
EffectiveEnd(end_time, d) ==
    IF ~Parses(end_time) \/ end_time.v > d THEN d ELSE end_time.v

InvalidRangeStrict(start_time, e) == start_time < 0 \/ start_time > e
\* if start_time < 0 or start_time >= end_time: return False
InvalidRange(start_time, e) == start_time < 0 \/ start_time >= e

\* video.subclip(start_time, end_time): the span of the video the new clip
\* plays, which is what write_videofile encodes
subclip_from_zero(start_time, e) == <<0, e>>
subclip(start_time, e) == <<start_time, e>>

trim_video(files, n, video_path, output_path, start_time, end_time, x) ==
    IF x.failAt = 1 THEN Helper(FALSE, files, n, 1)
    ELSE LET e == EffectiveEnd(end_time, Duration(video_path))
         IN  IF InvalidRange(start_time, e) THEN Helper(FALSE, files, n, 1)
             ELSE IF x.failAt = 2 THEN Helper(FALSE, files, n, 2)
             ELSE write_videofile(makedirs(files), n, output_path, 3, x)
                  @@ [span |-> subclip(start_time, e)]

TrimBody(inputs, config, files, n, key, x) ==
    LET video_path == Or(inputs.video_path, config.video_path)
        start_time == GetNum(config.start_time, 0)
        end_time   == config.end_time
        used == [video_path |-> video_path, start_time |-> start_time,
                 end_time |-> end_time]
    IN  IF ~Parses(start_time) \/ end_time.k = "bad" THEN Raise(files, n, key, 0, used)
        ELSE IF ~Truthy(video_path) \/ ~Exists(files, video_path)
             THEN Return(Err("Input video not found"), files, n, key, 0, used)
        ELSE IF ~EndsWith(video_path, VIDEO_EXTS)
             THEN Return(Err("Invalid file format"), files, n, key, 0, used)
        ELSE LET output_path == OutPath("trimmed_", Uuid4(n), video_path.ext)
                 h == trim_video(files, n + 1, video_path, output_path,
                                 start_time.v, end_time, x)
             IN  IF ~h.ok \/ ~Exists(h.fs, output_path)
                 THEN Return(Err("Failed to trim video or output file not created"),
                             h.fs, h.uuid, key, h.calls, used)
                 ELSE Return(Ok([output_path |-> output_path]),
                             h.fs, h.uuid, key, h.calls, used)
                      @@ [written |-> h.span]

TrimProcess(inputs, config, files, n, key, x) ==
    CatchAll(TrimBody(inputs, config, files, n, key, x))

-----------------------------------------------------------------------------
(* video/watermark.py *)

\* json.loads of subtitles_json: a list of n subtitle entries, or a JSON
\* number.  "[]" is skipped, and text that does not parse (twice) gives the
\* empty list.
Subtitles(k, n) == [k |-> k, n |-> n]
ParseSubtitles(subtitles_json) ==
    CASE subtitles_json = "[one]" -> Subtitles("list", 1)
      [] subtitles_json = "[one,two]" -> Subtitles("list", 2)
      [] subtitles_json = "5" -> Subtitles("number", 5)
      [] OTHER -> Subtitles("list", 0)

\* if subtitles and len(subtitles) > 0: a number other than 0 is truthy and
\* has no len()
LenRaises(subtitles) == subtitles.k = "number" /\ subtitles.n # 0

\* create_text_clip: create_text_image (an image-library operation), then
\* np.array(img), where the name np is bound nowhere in the module: it raises
\* NameError whenever it is reached.
create_text_clip_raises == TRUE

\* External operations: 1 VideoFileClip; one create_text_image for the
\* watermark text (its failure in create_text_clip ends the helper with
\* False) and one per subtitle (its failure only skips the subtitle); then
\* write_videofile.  An exception outside the per-subtitle try ends the
\* helper with False.
add_watermark(files, n, video_path, output_path, watermark_text, subtitles, x) ==
    IF ~Exists(files, video_path) THEN Helper(FALSE, files, n, 0)
    ELSE IF x.failAt = 1 THEN Helper(FALSE, files, n, 1)
    ELSE IF TruthyStr(watermark_text) /\ (create_text_clip_raises \/ x.failAt = 2)
         THEN Helper(FALSE, files, n, 2)
    ELSE IF LenRaises(subtitles)
         THEN Helper(FALSE, files, n, 1 + (IF TruthyStr(watermark_text) THEN 1 ELSE 0))
    ELSE LET done == 1 + (IF TruthyStr(watermark_text) THEN 1 ELSE 0) + subtitles.n
         IN  write_videofile(makedirs(files), n, output_path, done + 1, x)

WatermarkBody(inputs, config, files, n, key, x) ==
    LET video_path     == Or(inputs.video_path, config.video_path)
        watermark_text == GetStr(config.watermark_text, "")
        subtitles_json == GetStr(config.subtitles_json, "[]")
        start_time     == GetNum(config.start_time, 0)
        end_time       == config.end_time
        used == [video_path |-> video_path, watermark_text |-> watermark_text,
                 start_time |-> start_time, end_time |-> end_time]
    IN  IF ~Parses(start_time) \/ end_time.k = "bad" THEN Raise(files, n, key, 0, used)
        ELSE IF ~Truthy(video_path) \/ ~Exists(files, video_path)
             THEN Return(Err("Input video not found"), files, n, key, 0, used)
        ELSE IF ~EndsWith(video_path, VIDEO_EXTS)
             THEN Return(Err("Invalid file format"), files, n, key, 0, used)
        ELSE LET output_path == OutPath("watermarked_", Uuid4(n), video_path.ext)
                 h == add_watermark(files, n + 1, video_path, output_path, watermark_text,
                                    ParseSubtitles(subtitles_json), x)
             IN  IF ~h.ok \/ ~Exists(h.fs, output_path)
                 THEN Return(Err("Failed to add watermark to video or output file not created"),
                             h.fs, h.uuid, key, h.calls, used)
                 ELSE Return(Ok([output_path |-> output_path]),
                             h.fs, h.uuid, key, h.calls, used)

WatermarkProcess(inputs, config, files, n, key, x) ==
    CatchAll(WatermarkBody(inputs, config, files, n, key, x))

-----------------------------------------------------------------------------
(* Handles: images, clips and files a call opens, and how it releases them *)

\* The number of external operations of the call that completed.
Completed(o, x) == IF x.failAt = 0 THEN o.calls ELSE x.failAt - 1

Range(seq) == {seq[i] : i \in 1..Len(seq)}

\* <<name>> when the operation that opens the handle has completed.
After(k, op, name) == IF k >= op THEN <<name>> ELSE <<>>

\* The handles a call holds once k of its external operations have
\* completed, in the order in which its cleanup closes them.
Opened(h, used, k) ==
    CASE h \in {"EffectImage", "ResizeImage", "TextOverlayImage"} -> After(k, 1, "img")
      [] h = "LogoOverlayImage" -> After(k, 1, "img") \o After(k, 2, "logo")
      [] h = "RemoveBG" -> After(k, 1, "input_image")
      [] h = "RemoveObject" -> After(k, 1, "img") \o After(k, 2, "mask")
      [] h = "AutoCaptionImage" -> After(k, 1, "img_file")
      [] h = "GenerateImage" -> After(k, 3, "f")
      [] h = "AddBGM" ->
            After(k, 3, "final_video") \o After(k, 1, "video") \o After(k, 2, "music")
      [] h = "Merge" ->
            After(k, 1, "clip1") \o After(k, 2, "clip2")
            \o After(k, Len(used.video_paths.v) + 1, "final_clip")
      [] h = "Trim" -> After(k, 2, "trimmed") \o After(k, 1, "video")
      [] h = "Watermark" -> After(k, 1, "video")
      [] OTHER -> <<>>

\* Every helper with a cleanup closing its handles inside one try.
CleanupChain(h) ==
    CASE h \in {"EffectImage", "ResizeImage", "TextOverlayImage", "LogoOverlayImage",
                "Merge", "AddBGM", "Trim", "Watermark"} -> "chain"
      [] h \in {"AutoCaptionImage", "GenerateImage"} -> "with"
      [] OTHER -> "none"

\* How a handler releases what it opened: "each" closes every handle in a
\* try of its own, "chain" closes them one after another inside one try,
\* "with" uses a with statement, "none" closes nothing.
Cleanup(h) ==
    CASE h \in {"EffectImage", "ResizeImage", "TextOverlayImage", "LogoOverlayImage",
                "Merge"} -> "each"
      [] h \in {"AddBGM", "Trim", "Watermark"} -> "chain"
      [] h \in {"AutoCaptionImage", "GenerateImage"} -> "with"
      [] OTHER -> "none"

\* Which close() raises: the c-th of the cleanup, 0 for none.
CloseFailures(h, opened) ==
    IF Cleanup(h) \in {"each", "chain"} THEN 0..Len(opened) ELSE {0}

\* The handles on which no release was attempted when process returns.  In
\* a chain the exception of the c-th close leaves the try block, so the
\* closes after it are not made.
Leaked(h, opened, c) ==
    CASE Cleanup(h) = "none" -> {opened[i] : i \in 1..Len(opened)}
      [] Cleanup(h) = "chain" /\ c > 0 -> {opened[i] : i \in (c + 1)..Len(opened)}
      [] OTHER -> {}

-----------------------------------------------------------------------------
(* Arguments and external outcomes the calls are drawn from *)

\* (inputs value, config value) of a path key.
Pair(i, c) == [i |-> i, c |-> c]
ImagePairs ==
    {Pair(i, NonePath) : i \in {NonePath, EmptyPath, IMG, TXT, GONE_IMG}}
    \cup {Pair(NonePath, IMG), Pair(EmptyPath, IMG), Pair(NonePath, GONE_IMG),
          Pair(GONE_IMG, IMG), Pair(IMG, GONE_IMG)}
VideoPairs ==
    {Pair(i, NonePath) : i \in {NonePath, VID, TXT, GONE_VID}}
    \cup {Pair(NonePath, VID), Pair(GONE_VID, VID), Pair(VID, GONE_VID)}
SecondImage == {NonePath, IMG, TXT, GONE_IMG}

\* The numeric and text parameters take every listed value in the calls
\* whose path comes from inputs alone (an existing file or a missing one),
\* and the plain value in the calls on the other path pairs.
Varied == {Pair(IMG, NonePath), Pair(GONE_IMG, NonePath),
           Pair(VID, NonePath), Pair(GONE_VID, NonePath)}
Among(p, values, plain) == IF p \in Varied THEN values ELSE {plain}

\* Outcomes for a handler with `ops` external operations, the last one a
\* write; video writes may also leave the temporary audio file.
XImage(ops) ==
    {X(f, FALSE, FALSE, "ok") : f \in 0..ops} \cup {X(ops, TRUE, FALSE, "ok")}
XVideo(ops) ==
    {X(f, FALSE, FALSE, "ok") : f \in 0..ops}
    \cup {X(ops, p, t, "ok") : p \in BOOLEAN, t \in BOOLEAN}
XCaption ==
    {X(f, FALSE, FALSE, "ok") : f \in 0..2}
    \cup {X(0, FALSE, FALSE, h) : h \in {"non200", "nocaption", "malformed"}}

\* An outcome is drawn only for operations the call attempts.
Attempted(o, x) == x.failAt <= o.calls /\ (o.calls = 0 => x = NoFail)

-----------------------------------------------------------------------------
(* State machine *)

NoCall == [h |-> "none"]

\* The threads that may call process concurrently, and a thread that has
\* not called yet: the handler it runs, where it is in process, the api_key
\* it resolved and the one its request carried, its output and temporary
\* audio paths, and the paths it has written to.
Threads == 1..MaxThreads
NotStarted == [h |-> "none", pc |-> "idle", api_key |-> StrNull, sent |-> StrNull,
               out |-> NonePath, tmp |-> NonePath, wrote |-> {}]

\* Every module makes the output directory when it is loaded.
Init ==
    /\ fs = InputFiles
    /\ uuidCounter = 0
    /\ openai_api_key = StrNull
    /\ pc = "idle"
    /\ ncalls = 0
    /\ last = NoCall
    /\ returned = {}
    /\ outputDir = TRUE
    /\ removed = FALSE
    /\ inflight = [t \in Threads |-> NotStarted]

\* What os.path.exists sees: the files, and the output directory if it exists.
Disk == fs \cup (IF outputDir THEN {OUTPUT_DIR} ELSE {})

\* The caller is between calls and may make another.
Idle == pc = "idle" /\ ncalls < MaxCalls

\* The call h(inputs, config) made with the outcome of its process.  Any one
\* close() of the cleanup may raise (c); the record keeps which one for
\* merge_videos, whose cleanup goes on after it.
Finish(h, inputs, config, x, outcome) ==
    \E o \in {outcome} :
    /\ Attempted(o, x)
    /\ fs' = o.fs \ {OUTPUT_DIR}
    /\ outputDir' = (OUTPUT_DIR \in o.fs)
    /\ removed' = removed
    /\ inflight' = inflight
    /\ uuidCounter' = o.uuid
    /\ openai_api_key' = o.key
    /\ pc' = "returned"
    /\ ncalls' = ncalls + 1
    /\ \E c \in CloseFailures(h, Opened(h, o.used, Completed(o, x))) :
          last' = [h |-> h, inputs |-> inputs, config |-> config, x |-> x,
                   raised |-> o.raised, result |-> o.result, calls |-> o.calls,
                   used |-> o.used, fsBefore |-> fs, keyBefore |-> openai_api_key,
                   returnedBefore |-> returned, uuidBefore |-> uuidCounter,
                   dirBefore |-> outputDir,
                   opened |-> Range(Opened(h, o.used, Completed(o, x))),
                   open |-> Leaked(h, Opened(h, o.used, Completed(o, x)), c),
                   closeRaised |-> IF h = "Merge" THEN c ELSE 0,
                   written |-> IF "written" \in DOMAIN o THEN o.written ELSE <<>>]
    /\ returned' = IF ~o.raised /\ o.result.status = "success"
                      /\ "output_path" \in DOMAIN o.result.outputs
                   THEN returned \cup {o.result.outputs.output_path}
                   ELSE returned

EffectImage ==
    Idle /\
    \E ip \in ImagePairs :
    \E effect \in Among(ip, {StrMissing, "sepia", "not_a_real_effect"}, StrMissing),
       intensity \in Among(ip, {NumMissing, NumBad}, NumMissing), x \in XImage(3) :
        LET inputs == [image_path |-> ip.i]
            config == [image_path |-> ip.c, effect |-> effect, intensity |-> intensity]
        IN  Finish("EffectImage", inputs, config, x,
                   EffectImageProcess(inputs, config, Disk, uuidCounter, openai_api_key, x))

ResizeImage ==
    Idle /\
    \E ip \in ImagePairs :
    \E width \in Among(ip, {Num(50), Num(20), NumFloat(50), NumMissing, NumBad}, Num(50)),
       height \in Among(ip, {Num(50), Num(0), NumNull}, Num(50)), x \in XImage(3) :
        LET inputs == [image_path |-> ip.i]
            config == [image_path |-> ip.c, width |-> width, height |-> height]
        IN  Finish("ResizeImage", inputs, config, x,
                   ResizeImageProcess(inputs, config, Disk, uuidCounter, openai_api_key, x))

LogoOverlayImage ==
    Idle /\
    \E ip \in ImagePairs :
    \E logo \in SecondImage,
       offset \in Among(ip, {OffMissing, Offset("str", 10, 20), Offset("badstr", 0, 0)},
                        OffMissing),
       x \in XImage(4) :
        LET inputs == [image_path |-> ip.i, logo_path |-> logo]
            config == [image_path |-> ip.c, logo_path |-> NonePath, offset |-> offset,
                       logo_scale |-> NumMissing, opacity |-> NumMissing]
        IN  Finish("LogoOverlayImage", inputs, config, x,
                   LogoOverlayImageProcess(inputs, config, Disk, uuidCounter, openai_api_key, x))

TextOverlayImage ==
    Idle /\
    \E ip \in ImagePairs :
    \E offset \in Among(ip, {OffMissing, Offset("badstr", 0, 0)}, OffMissing),
       font_size \in Among(ip, {NumMissing, NumBad}, NumMissing), x \in XImage(3) :
        LET inputs == [image_path |-> ip.i]
            config == [image_path |-> ip.c, offset |-> offset, font_size |-> font_size,
                       opacity |-> NumMissing]
        IN  Finish("TextOverlayImage", inputs, config, x,
                   TextOverlayImageProcess(inputs, config, Disk, uuidCounter, openai_api_key, x))

RemoveBG ==
    Idle /\
    \E ip \in ImagePairs, x \in XImage(3) :
        LET inputs == [image_path |-> ip.i]
            config == [image_path |-> ip.c]
        IN  Finish("RemoveBG", inputs, config, x,
                   RemoveBGProcess(inputs, config, Disk, uuidCounter, openai_api_key, x))

AutoCaptionImage ==
    Idle /\
    \E ip \in ImagePairs :
    \E api_key \in Among(ip, {StrNull, "k1", "k2"}, StrNull), x \in XCaption :
        LET inputs == [image_path |-> ip.i, api_key |-> api_key]
            config == [image_path |-> ip.c]
        IN  Finish("AutoCaptionImage", inputs, config, x,
                   AutoCaptionImageProcess(inputs, config, Disk, uuidCounter, openai_api_key, x))

GenerateImage ==
    Idle /\
    \E pr \in {Pair("a prompt", StrMissing), Pair(StrMissing, "a prompt"),
               Pair(StrNull, StrMissing), Pair("", StrMissing)},
       ak \in {Pair("k1", StrMissing), Pair(StrMissing, "k2"), Pair("k1", "k2"),
               Pair(StrNull, StrMissing)},
       environ \in {"", "kenv"}, x \in XImage(3) \cup {X(0, FALSE, FALSE, "non200")} :
        LET inputs == [prompt |-> pr.i, api_key |-> ak.i]
            config == [prompt |-> pr.c, api_key |-> ak.c, OPENAI_API_KEY |-> environ]
        IN  Finish("GenerateImage", inputs, config, x,
                   GenerateImageProcess(inputs, config, environ, Disk, uuidCounter,
                                        openai_api_key, x))

RemoveObject ==
    Idle /\
    \E ip \in ImagePairs, mask \in SecondImage, x \in XImage(4) :
        LET inputs == [image_path |-> ip.i, mask_path |-> mask]
            config == [image_path |-> ip.c, mask_path |-> NonePath]
        IN  Finish("RemoveObject", inputs, config, x,
                   RemoveObjectProcess(inputs, config, Disk, uuidCounter, openai_api_key, x))

AddBGM ==
    Idle /\
    \E iv \in {Pair(NonePath, NonePath), Pair(VID, AUD), Pair(GONE_VID, AUD)},
       video \in {NonePath, VID, TXT, GONE_VID}, music \in {NonePath, AUD, TXT, GONE_AUD},
       music_volume \in {NumMissing, NumBad}, x \in XVideo(4) :
        LET inputs == [video_path |-> iv.i, music_path |-> iv.c]
            config == [video_path |-> video, music_path |-> music,
                       music_volume |-> music_volume, video_volume |-> NumMissing]
        IN  Finish("AddBGM", inputs, config, x,
                   AddBGMProcess(inputs, config, Disk, uuidCounter, openai_api_key, x))

Merge ==
    Idle /\
    \E video_paths \in {Paths("missing", <<>>), Paths("str", <<VID>>), Paths("list", <<>>),
                        Paths("list", <<VID>>), Paths("list", <<GONE_VID>>),
                        Paths("list", <<VID, VID>>),
                        Paths("list", <<VID, GONE_VID>>), Paths("list", <<TXT, VID>>),
                        Paths("list", <<VID, NonePath>>), Paths("list", <<GONE_VID, TXT>>)},
       x \in XVideo(4) :
        LET inputs == [video_paths |-> Paths("missing", <<>>)]
            config == [video_paths |-> video_paths]
        IN  Finish("Merge", inputs, config, x,
                   MergeProcess(inputs, config, Disk, uuidCounter, openai_api_key, x))

Trim ==
    Idle /\
    \E vp \in VideoPairs :
    \E start_time \in Among(vp, {NumMissing, Num(2), Num(5), Num(-1), NumBad}, NumMissing),
       end_time \in Among(vp, {NumMissing, Num(2), Num(5), NumBad}, NumMissing),
       x \in XVideo(3) :
        LET inputs == [video_path |-> vp.i]
            config == [video_path |-> vp.c, start_time |-> start_time, end_time |-> end_time]
        IN  Finish("Trim", inputs, config, x,
                   TrimProcess(inputs, config, Disk, uuidCounter, openai_api_key, x))

Watermark ==
    Idle /\
    \E vp \in VideoPairs :
    \E watermark_text \in Among(vp, {StrMissing, "wm"}, StrMissing),
       subtitles_json \in Among(vp, {StrMissing, "[one]", "not json", "5"}, StrMissing),
       end_time \in Among(vp, {NumMissing, NumBad}, NumMissing), x \in XVideo(3) :
        LET inputs == [video_path |-> vp.i]
            config == [video_path |-> vp.c, watermark_text |-> watermark_text,
                       subtitles_json |-> subtitles_json, start_time |-> NumMissing,
                       end_time |-> end_time]
        IN  Finish("Watermark", inputs, config, x,
                   WatermarkProcess(inputs, config, Disk, uuidCounter, openai_api_key, x))

\* The caller takes the envelope; the next call starts from the files and
\* module globals the calls so far have left.
Collect ==
    /\ pc = "returned"
    /\ pc' = "idle"
    /\ last' = NoCall
    /\ UNCHANGED <<fs, uuidCounter, openai_api_key, ncalls, returned, outputDir,
                   removed, inflight>>

\* Between calls the output directory, while it holds no file, is removed
\* from outside (os.rmdir); the modules are not loaded again.
RemoveOutputDir ==
    /\ Idle
    /\ outputDir
    /\ \A p \in fs : p.dir # OUTPUT_FOLDER
    /\ outputDir' = FALSE
    /\ removed' = TRUE
    /\ UNCHANGED <<fs, uuidCounter, openai_api_key, pc, ncalls, last, returned,
                   inflight>>

\* process of handler h, by name.
ProcessOf(h, inputs, config, files, n, key, x) ==
    CASE h = "EffectImage" -> EffectImageProcess(inputs, config, files, n, key, x)
      [] h = "ResizeImage" -> ResizeImageProcess(inputs, config, files, n, key, x)
      [] h = "LogoOverlayImage" -> LogoOverlayImageProcess(inputs, config, files, n, key, x)
      [] h = "TextOverlayImage" -> TextOverlayImageProcess(inputs, config, files, n, key, x)
      [] h = "RemoveBG" -> RemoveBGProcess(inputs, config, files, n, key, x)
      [] h = "AutoCaptionImage" -> AutoCaptionImageProcess(inputs, config, files, n, key, x)
      [] h = "GenerateImage" ->
            GenerateImageProcess(inputs, config, config.OPENAI_API_KEY, files, n, key, x)
      [] h = "RemoveObject" -> RemoveObjectProcess(inputs, config, files, n, key, x)
      [] h = "AddBGM" -> AddBGMProcess(inputs, config, files, n, key, x)
      [] h = "Merge" -> MergeProcess(inputs, config, files, n, key, x)
      [] h = "Trim" -> TrimProcess(inputs, config, files, n, key, x)
      [] h = "Watermark" -> WatermarkProcess(inputs, config, files, n, key, x)

Next ==
    \/ EffectImage
    \/ ResizeImage
    \/ LogoOverlayImage
    \/ TextOverlayImage
    \/ RemoveBG
    \/ AutoCaptionImage
    \/ GenerateImage
    \/ RemoveObject
    \/ AddBGM
    \/ Merge
    \/ Trim
    \/ Watermark
    \/ Collect
    \/ RemoveOutputDir

Spec == Init /\ [][Next]_vars

\* get_position applied to an image size, a logo size, a position name
\* (one of them not in pos_map) and an offset.
GetPosition ==
    /\ pc = "idle"
    /\ \E W \in 1..MaxSide, H \in 1..MaxSide, w \in 1..MaxSide, h \in 1..MaxSide,
          position \in POSITIONS \cup {"nowhere"},
          x_off \in -MaxOffset..MaxOffset, y_off \in -MaxOffset..MaxOffset :
            last' = [h |-> "get_position", img_size |-> <<W, H>>, logo_size |-> <<w, h>>,
                     position |-> position, offset |-> <<x_off, y_off>>,
                     pos |-> get_position(<<W, H>>, <<w, h>>, position, <<x_off, y_off>>),
                     text_pos |-> text_get_position(<<W, H>>, <<w, h>>, position,
                                                    <<x_off, y_off>>)]
    /\ pc' = "returned"
    /\ UNCHANGED <<fs, uuidCounter, openai_api_key, ncalls, returned, outputDir, removed,
                   inflight>>

NextPos == GetPosition \/ Collect

SpecPos == Init /\ [][NextPos]_vars

-----------------------------------------------------------------------------
(* Concurrent calls.  Each thread makes one call with valid arguments; its  *)
(* steps are the statements of process and of the helper that read or      *)
(* write what the threads share: the uuid source, openai.api_key and the   *)
(* file system.  The threads interleave between the steps.                 *)

ConcHandlers == {"GenerateImage", "Merge", "Trim"}
VideoHandlers == {"Merge", "Trim"}

\* The output path of handler h for the token t.
OutputPathOf(h, t) ==
    CASE h = "GenerateImage" -> OutPath("gen_", t, ".png")
      [] h = "Merge" -> OutPath("merged_", t, VID.ext)
      [] h = "Trim" -> OutPath("trimmed_", t, VID.ext)

\* Thread t moves on, with the given fields of its record changed; the
\* sequential caller's variables are not involved.
Step(t, fields) ==
    /\ inflight' = [inflight EXCEPT ![t] = fields @@ inflight[t]]
    /\ UNCHANGED <<pc, ncalls, last, returned, outputDir, removed>>

\* A thread enters process; GenerateImage resolves its api_key.
ConcCall ==
    \E t \in Threads :
    /\ inflight[t].pc = "idle"
    /\ \E h \in ConcHandlers :
       \E api_key \in (IF h = "GenerateImage" THEN {"k1", "k2"} ELSE {StrNull}) :
          Step(t, [h |-> h, pc |-> "called", api_key |-> api_key])
    /\ UNCHANGED <<fs, uuidCounter, openai_api_key>>

\* openai.api_key = api_key
ConcSetKey ==
    \E t \in Threads :
    /\ inflight[t].h = "GenerateImage" /\ inflight[t].pc = "called"
    /\ openai_api_key' = inflight[t].api_key
    /\ Step(t, [pc |-> "keyset"])
    /\ UNCHANGED <<fs, uuidCounter>>

\* openai.Image.create(...): the library reads openai.api_key for the request
ConcRequest ==
    \E t \in Threads :
    /\ inflight[t].pc = "keyset"
    /\ Step(t, [pc |-> "requested", sent |-> openai_api_key])
    /\ UNCHANGED <<fs, uuidCounter, openai_api_key>>

\* unique_filename = f"{uuid.uuid4()}{file_ext}" and output_path
ConcName ==
    \E t \in Threads :
    /\ \/ inflight[t].h = "GenerateImage" /\ inflight[t].pc = "requested"
       \/ inflight[t].h \in VideoHandlers /\ inflight[t].pc = "called"
    /\ uuidCounter' = uuidCounter + 1
    /\ Step(t, [pc |-> "named", out |-> OutputPathOf(inflight[t].h, Uuid4(uuidCounter))])
    /\ UNCHANGED <<fs, openai_api_key>>

\* temp_audiofile=os.path.join("/tmp", f"temp-audio-{uuid.uuid4()}.m4a")
ConcNameTemp ==
    \E t \in Threads :
    /\ inflight[t].h \in VideoHandlers /\ inflight[t].pc = "named"
    /\ uuidCounter' = uuidCounter + 1
    /\ Step(t, [pc |-> "tempnamed", tmp |-> TempAudio(Uuid4(uuidCounter))])
    /\ UNCHANGED <<fs, openai_api_key>>

\* write_videofile writes the audio to the temporary file
ConcWriteTemp ==
    \E t \in Threads :
    /\ inflight[t].pc = "tempnamed"
    /\ fs' = fs \cup {inflight[t].tmp}
    /\ Step(t, [pc |-> "audio", wrote |-> inflight[t].wrote \cup {inflight[t].tmp}])
    /\ UNCHANGED <<uuidCounter, openai_api_key>>

\* The output file is written (and the temporary audio file removed).
ConcWrite ==
    \E t \in Threads :
    /\ \/ inflight[t].h = "GenerateImage" /\ inflight[t].pc = "named"
       \/ inflight[t].pc = "audio"
    /\ fs' = (fs \ {inflight[t].tmp}) \cup {inflight[t].out}
    /\ Step(t, [pc |-> "done", wrote |-> inflight[t].wrote \cup {inflight[t].out}])
    /\ UNCHANGED <<uuidCounter, openai_api_key>>

NextConc ==
    \/ ConcCall
    \/ ConcSetKey
    \/ ConcRequest
    \/ ConcName
    \/ ConcNameTemp
    \/ ConcWriteTemp
    \/ ConcWrite

SpecConc == Init /\ [][NextConc]_vars

-----------------------------------------------------------------------------
(* Vocabulary of the properties *)

Returned == pc = "returned"
Succeeded == Returned /\ last.result.status = "success"
Failed    == Returned /\ last.result.status = "error"
OutputFiles(files) == {p \in files : p.dir = OUTPUT_FOLDER}

\* The path values process read for its required path parameters.
RequiredPaths ==
    CASE last.h \in {"EffectImage", "ResizeImage", "TextOverlayImage", "RemoveBG",
                     "AutoCaptionImage"} -> {last.used.image_path}
      [] last.h = "LogoOverlayImage" -> {last.used.image_path, last.used.logo_path}
      [] last.h = "RemoveObject" -> {last.used.image_path, last.used.mask_path}
      [] last.h = "AddBGM" -> {last.used.video_path, last.used.music_path}
      [] last.h \in {"Trim", "Watermark"} -> {last.used.video_path}
      [] last.h = "Merge" -> IF last.used.video_paths.k = "list"
                             THEN Range(last.used.video_paths.v) ELSE {}
      [] OTHER -> {}

\* A required parameter that is not a path is missing, null or empty.
RequiredParameterAbsent ==
    CASE last.h = "ResizeImage" ->
            last.used.width.k \in {"missing", "null"}
            \/ last.used.height.k \in {"missing", "null"}
      [] last.h = "GenerateImage" ->
            ~TruthyStr(last.used.prompt) \/ ~TruthyStr(last.used.api_key)
      [] last.h = "Merge" ->
            last.used.video_paths.k = "missing" \/ last.used.video_paths.v = <<>>
      [] OTHER -> FALSE

-----------------------------------------------------------------------------
(* Properties *)

\* C1: whatever the inputs, the config values and the failures of external
\* operations, every call returns an envelope; no exception leaves process.
C1_NeverRaises ==
    Returned => ~last.raised /\ last.result.status \in {"success", "error"}

\* C1 witness: an external operation raised in a handler without a helper and
\* the call still returned an error envelope.
C1_Witness ==
    /\ Returned /\ last.h = "GenerateImage"
    /\ last.x.failAt = 1 /\ last.calls = 1
    /\ ~last.raised /\ last.result.status = "error"

\* C2: a returned value has status "success" and the key outputs but not
\* error, or status "error" and the key error but not outputs.
C2_EnvelopeShape ==
    Returned =>
        /\ last.result.status \in {"success", "error"}
        /\ ("outputs" \in DOMAIN last.result) <=> (last.result.status = "success")
        /\ ("error" \in DOMAIN last.result) <=> (last.result.status = "error")

\* C2 witness: an error envelope made from a caught exception carries status
\* and error alone.
C2_Witness ==
    /\ Returned /\ last.h = "AutoCaptionImage" /\ last.x.http = "malformed"
    /\ DOMAIN last.result = {"status", "error"}

\* C3: when a required path is absent or names no existing file, or a
\* required parameter is absent, the call returns an error and attempts no
\* external operation.
C3_MissingInputNoExternalCall ==
    (Returned /\ (RequiredParameterAbsent
                  \/ \E p \in RequiredPaths : ~Truthy(p) \/ p \notin last.fsBefore))
        => last.result.status = "error" /\ last.calls = 0

\* C3 witness: RemoveObject with an existing image and a mask that does not
\* exist returned an error without any external operation.
C3_Witness ==
    /\ Returned /\ last.h = "RemoveObject"
    /\ last.used.image_path = IMG /\ last.used.mask_path = GONE_IMG
    /\ last.result.status = "error" /\ last.calls = 0

\* The media files a call was given, by kind, as process read them.
ImagePathsRead ==
    CASE last.h \in {"EffectImage", "ResizeImage", "TextOverlayImage", "RemoveBG",
                     "AutoCaptionImage"} -> {last.used.image_path}
      [] last.h = "LogoOverlayImage" -> {last.used.image_path, last.used.logo_path}
      [] last.h = "RemoveObject" -> {last.used.image_path, last.used.mask_path}
      [] OTHER -> {}
VideoPathsRead ==
    CASE last.h = "AddBGM" -> {last.used.video_path}
      [] last.h \in {"Trim", "Watermark"} -> {last.used.video_path}
      [] last.h = "Merge" -> IF last.used.video_paths.k = "list"
                             THEN Range(last.used.video_paths.v) ELSE {}
      [] OTHER -> {}
AudioPathsRead ==
    CASE last.h = "AddBGM" -> {last.used.music_path}
      [] OTHER -> {}

OutsideAllowList(paths, exts) ==
    \E p \in paths : p \in last.fsBefore /\ Lower(p.ext) \notin exts

\* C4: when an input media file exists and its suffix is outside the
\* allow-list of its kind, the call returns an error and attempts no
\* external operation.
C4_ExtensionCheckedFirst ==
    (Returned /\ (\/ OutsideAllowList(ImagePathsRead, IMAGE_EXTS)
                  \/ OutsideAllowList(VideoPathsRead, VIDEO_EXTS)
                  \/ OutsideAllowList(AudioPathsRead, AUDIO_EXTS)))
        => last.result.status = "error" /\ last.calls = 0

\* C5: when a path the call refers to names no existing file, the call
\* returns an error and the files of the output directory are those from
\* before the call.
C5_MissingFileNoOutput ==
    (Returned /\ \E p \in RequiredPaths : Truthy(p) /\ p \notin last.fsBefore)
        => /\ last.result.status = "error"
           /\ OutputFiles(fs) = OutputFiles(last.fsBefore)

\* C5 witness: Merge with an existing first path and a second path that does
\* not exist returned an error and left the files as they were.
C5_Witness ==
    /\ Returned /\ last.h = "Merge"
    /\ last.used.video_paths = Paths("list", <<VID, GONE_VID>>)
    /\ last.result.status = "error" /\ fs = last.fsBefore

\* inputs[key] when present and not empty, otherwise config[key]
FromInputsFirst(i, c) == Or(i, c)

\* C6: each parameter's value is inputs[key] when inputs holds one,
\* otherwise config[key], otherwise the default.
C6_InputsBeforeConfig ==
    Returned =>
        /\ last.h \in {"EffectImage", "ResizeImage", "TextOverlayImage", "RemoveBG",
                       "AutoCaptionImage", "LogoOverlayImage", "RemoveObject"}
              => last.used.image_path
                    = FromInputsFirst(last.inputs.image_path, last.config.image_path)
        /\ last.h \in {"Trim", "Watermark", "AddBGM"}
              => last.used.video_path
                    = FromInputsFirst(last.inputs.video_path, last.config.video_path)
        /\ last.h = "AddBGM"
              => last.used.music_path
                    = FromInputsFirst(last.inputs.music_path, last.config.music_path)
        /\ last.h = "GenerateImage"
              => last.used.api_key
                    = OrStr(OrStr(last.inputs.api_key, last.config.api_key),
                            last.config.OPENAI_API_KEY)

\* C7: a successful call returns a path no earlier call returned and no file
\* had before the call; no call removes a file; every path returned so far
\* names an existing file.
C7_FreshOutputPath ==
    /\ returned \subseteq fs
    /\ Returned => last.fsBefore \subseteq fs
    /\ (Succeeded /\ "output_path" \in DOMAIN last.result.outputs)
          => /\ last.result.outputs.output_path \notin last.returnedBefore
             /\ last.result.outputs.output_path \notin last.fsBefore

\* C7 witness: two successful ResizeImage calls on the same image have
\* returned two different paths, both existing.
C7_Witness ==
    /\ Succeeded /\ last.h = "ResizeImage"
    /\ \E p \in returned, q \in returned :
          /\ p # q /\ p.stem = "resized_" /\ q.stem = "resized_" /\ p.ext = q.ext
          /\ p \in fs /\ q \in fs

\* The returned output_path is a file under the output directory that the
\* call created.
FreshOutputFile ==
    /\ "output_path" \in DOMAIN last.result.outputs
    /\ last.result.outputs.output_path.dir = OUTPUT_FOLDER
    /\ last.result.outputs.output_path \notin last.fsBefore
    /\ last.result.outputs.output_path \in fs

C9_AtMostOneNewFile ==
    Returned => /\ Cardinality(fs \ last.fsBefore) <= 1
                /\ last.fsBefore \subseteq fs

\* C10: a call leaves the state shared between calls, other than the files,
\* as it was: here the module global openai.api_key.
C10_NoSharedStateChange ==
    Returned => openai_api_key = last.keyBefore

-----------------------------------------------------------------------------
(* Properties of later sections: independence, handles, external failures *)

\* The disk a call made before every other call would find: the caller's
\* files, and the output directory unless it has been removed since load.
FirstDisk == InputFiles \cup (IF removed THEN {} ELSE {OUTPUT_DIR})

\* The same call made first, with the same external outcomes.
AsFirstCall ==
    ProcessOf(last.h, last.inputs, last.config, FirstDisk, 0, StrNull, last.x)

\* An envelope with the random token of its output path left out.
NoToken(result) ==
    IF result.status = "success" /\ "output_path" \in DOMAIN result.outputs
    THEN [result EXCEPT !.outputs.output_path.tok = 0]
    ELSE result

\* C11: a call returns the same status and, up to the random token, the
\* same outputs after any sequence of other calls as it returns when it is
\* the first call, given the same files and external outcomes.
C11_IndependentOfEarlierCalls ==
    Returned => NoToken(last.result) = NoToken(AsFirstCall.result)

\* C12: when process returns, every image, clip and file handle the call
\* opened has been released, also when a close() raised.
C12_HandlesReleased ==
    Returned => last.open = {}

\* An external operation of the call failed or gave no usable answer.
ExternalOperationFailed ==
    last.x.failAt \in 1..last.calls \/ last.x.http # "ok"

\* C13: a call in which an external operation failed or gave no usable
\* answer returns an error.
C13_ExternalFailureIsError ==
    (Returned /\ ExternalOperationFailed) => last.result.status = "error"

\* C14: after the first external operation that fails, the call attempts no
\* further external operation: the failed one is the last one attempted.
C14_NoOperationAfterFailure ==
    (Returned /\ last.x.failAt \in 1..last.calls) => last.calls = last.x.failAt

\* C15: the paste offset get_position returns has no negative component,
\* and it is (0,0) for a logo wider and higher than the image placed at
\* "bottom_right", whatever the offset.
C15_LogoOffsetClamped ==
    (pc = "returned" /\ last.h = "get_position") =>
        /\ last.pos[1] >= 0 /\ last.pos[2] >= 0
        /\ (/\ last.logo_size[1] > last.img_size[1]
            /\ last.logo_size[2] > last.img_size[2]
            /\ last.position = "bottom_right") => last.pos = <<0, 0>>

\* C15 witness: a logo larger than the image in both axes, at
\* "bottom_right" with an offset to the right and upwards, is pasted at (0,0).
C15_Witness ==
    /\ pc = "returned" /\ last.h = "get_position"
    /\ last.logo_size[1] > last.img_size[1] /\ last.logo_size[2] > last.img_size[2]
    /\ last.position = "bottom_right"
    /\ last.offset[1] > 0 /\ last.offset[2] < 0
    /\ last.pos = <<0, 0>>

\* The end of the range trim_video cuts: end_time when given and inside
\* the video, otherwise the duration.
TrimEnd == EffectiveEnd(last.used.end_time, Duration(last.used.video_path))

\* C16: a Trim call whose start_time is negative or not before the
\* effective end time returns an error and writes no file.
C16_TrimRejectsInvalidRange ==
    (/\ Returned /\ last.h = "Trim"
     /\ Parses(last.used.start_time)
     /\ (last.used.start_time.v < 0 \/ last.used.start_time.v >= TrimEnd))
        => last.result.status = "error" /\ fs = last.fsBefore

\* C16 witness: trimming the existing video with start_time at end_time was
\* refused after the video had been opened, and nothing was written.
C16_Witness ==
    /\ Returned /\ last.h = "Trim" /\ last.used.video_path = VID
    /\ Parses(last.used.end_time)
    /\ last.used.start_time.v = last.used.end_time.v
    /\ last.calls = 1 /\ last.x.failAt = 0
    /\ last.result.status = "error" /\ fs = last.fsBefore

\* C17: a Merge call whose video_paths is absent, not a list, empty or of
\* one element returns the error that asks for at least two paths, and
\* opens no video.
C17_MergeNeedsTwoPaths ==
    (/\ Returned /\ last.h = "Merge"
     /\ (last.config.video_paths.k # "list" \/ Len(last.config.video_paths.v) < 2))
        => /\ last.result = Err("At least two video paths must be provided for merging.")
           /\ last.calls = 0
           /\ fs = last.fsBefore

\* C17 witness: Merge with the single path of a file that does not exist
\* reported the missing second path, not the missing file.
C17_Witness ==
    /\ Returned /\ last.h = "Merge"
    /\ last.config.video_paths = Paths("list", <<GONE_VID>>)
    /\ last.result = Err("At least two video paths must be provided for merging.")

\* C18: an EffectImage call whose effect is none of the five known effects
\* returns an error and creates no file.
C18_UnknownEffectIsError ==
    (Returned /\ last.h = "EffectImage" /\ last.used.effect \notin EFFECTS)
        => last.result.status = "error" /\ fs = last.fsBefore

\* C18 witness: "not_a_real_effect" on an existing image was refused after
\* the image had been opened.
C18_Witness ==
    /\ Returned /\ last.h = "EffectImage"
    /\ last.used.effect = "not_a_real_effect" /\ last.used.image_path = IMG
    /\ last.calls = 1 /\ last.result.status = "error" /\ fs = last.fsBefore

\* C19: the image a successful ResizeImage call writes has exactly the
\* size (int(width), int(height)) of its config.
C19_ResizedToRequestedSize ==
    (Succeeded /\ last.h = "ResizeImage")
        => last.written = <<int(last.config.width), int(last.config.height)>>

\* C19 witness: the square image was resized to width 20 and height 50,
\* another aspect ratio than its own.
C19_Witness ==
    /\ Succeeded /\ last.h = "ResizeImage"
    /\ Size(last.used.image_path)[1] = Size(last.used.image_path)[2]
    /\ last.config.width = Num(20) /\ last.config.height = Num(50)
    /\ last.written = <<20, 50>>

\* The same call on the same files with the output directory in place.
WithOutputDir ==
    ProcessOf(last.h, last.inputs, last.config, last.fsBefore \cup {OUTPUT_DIR},
              last.uuidBefore, last.keyBefore, last.x)

\* C20: a call that succeeds when the output directory exists also
\* succeeds when the directory is missing when the call starts: every
\* handler creates the directory before it writes.
C20_OutputDirCreated ==
    (Returned /\ ~last.dirBefore /\ WithOutputDir.result.status = "success"
        /\ "output_path" \in DOMAIN WithOutputDir.result.outputs)
        => Succeeded /\ outputDir


-----------------------------------------------------------------------------
(* C22 *)

\* The overlay of size (w,h) placed at pos lies inside the image of size (W,H).
Within(pos, size, img_size) ==
    /\ 0 <= pos[1] /\ pos[1] + size[1] <= img_size[1]
    /\ 0 <= pos[2] /\ pos[2] + size[2] <= img_size[2]

\* The same, for the axes in which the overlay is not larger than the image.
WithinWhereItFits(pos, size, img_size) ==
    /\ 0 <= pos[1] /\ (size[1] <= img_size[1] => pos[1] + size[1] <= img_size[1])
    /\ 0 <= pos[2] /\ (size[2] <= img_size[2] => pos[2] + size[2] <= img_size[2])

-----------------------------------------------------------------------------
(* C23 *)

\* C23: whenever process returns status "error", whatever the cause, no file
\* under the output directory exists that did not exist before the call.
C23_ErrorLeavesNoOutput ==
    Failed => OutputFiles(fs) \subseteq OutputFiles(last.fsBefore)

-----------------------------------------------------------------------------
(* C25 *)

\* C25: when AutoCaptionImage sends its captioning request and the caller
\* supplied inputs.api_key, the key placed in the request is that key.
C25_CaptionUsesCallerKey ==
    (/\ Returned /\ last.h = "AutoCaptionImage"
     /\ last.calls = 2
     /\ TruthyStr(last.inputs.api_key)) =>
        last.used.api_key = last.inputs.api_key

-----------------------------------------------------------------------------
(* C26 *)

\* process of Watermark read numeric times and reached add_watermark with a
\* video that exists and has an allowed extension, and no library operation
\* failed.
WatermarkLibraryWorked ==
    /\ Returned /\ last.h = "Watermark"
    /\ Parses(last.used.start_time) /\ last.used.end_time.k # "bad"
    /\ Truthy(last.used.video_path)
    /\ Exists(last.fsBefore, last.used.video_path)
    /\ EndsWith(last.used.video_path, VIDEO_EXTS)
    /\ last.x.failAt = 0

\* C26: for an existing video with an allowed extension and a non-empty
\* watermark_text, when the video library loads, composites and writes
\* without failure, Watermark returns status "success" with an output_path
\* that exists.
C26_WatermarkAdded ==
    (WatermarkLibraryWorked /\ TruthyStr(last.used.watermark_text)) =>
        /\ Succeeded
        /\ last.result.outputs.output_path \in fs

-----------------------------------------------------------------------------
(* C27 *)

\* C27: when Merge returns, on every exit path of merge_videos (a later
\* open failed, concatenation or writing failed, success) and whichever
\* close raised, a close has been attempted on every clip that was opened
\* and on the concatenated clip if it was created.
C27_MergeClosesEveryClip ==
    (Returned /\ last.h = "Merge") => last.open = {}

\* C27 witness: writing the merged video failed with both clips and the
\* concatenated clip open, closing the first clip raised, and the other two
\* were still closed.
C27_Witness ==
    /\ Failed /\ last.h = "Merge"
    /\ last.x.failAt = 4
    /\ last.opened = {"clip1", "clip2", "final_clip"}
    /\ last.closeRaised = 1
    /\ last.open = {}

-----------------------------------------------------------------------------
(* C28 *)

\* C28: whenever Trim returns success for a video of duration d, the
\* written sub-clip spans exactly [start_time, e], where start_time is 0
\* when absent, e = d if end_time is absent or greater than d and
\* e = end_time otherwise, and 0 <= start_time < e <= d.
C28_TrimWritesRequestedRange ==
    (Succeeded /\ last.h = "Trim") =>
        LET d == Duration(last.used.video_path)
            start_time == IF last.config.start_time.k = "missing" THEN 0
                          ELSE last.config.start_time.v
            end_time == last.config.end_time
            e == IF end_time.k \in {"missing", "null"} \/ end_time.v > d THEN d
                 ELSE end_time.v
        IN  /\ last.written = <<start_time, e>>
            /\ 0 <= start_time /\ start_time < e /\ e <= d

\* C28 witness: a successful Trim from a start after 0 with an end_time
\* beyond the duration wrote the span from that start to the duration.
C28_Witness ==
    /\ Succeeded /\ last.h = "Trim"
    /\ last.config.start_time.k = "num" /\ last.config.start_time.v > 0
    /\ last.config.end_time.k = "num"
    /\ last.config.end_time.v > Duration(last.used.video_path)
    /\ last.written = <<last.config.start_time.v, Duration(last.used.video_path)>>

-----------------------------------------------------------------------------
(* C29 *)

\* C29: subtitle handling never fails a Watermark call by itself.  For a
\* valid video and no watermark text, whatever subtitles_json holds, when
\* neither loading the video nor writing the output fails (a failure, if
\* any, is in creating a subtitle clip), process returns status "success".
C29_SubtitlesNeverFailTheCall ==
    (/\ Returned /\ last.h = "Watermark"
     /\ Parses(last.used.start_time) /\ last.used.end_time.k # "bad"
     /\ Truthy(last.used.video_path)
     /\ Exists(last.fsBefore, last.used.video_path)
     /\ EndsWith(last.used.video_path, VIDEO_EXTS)
     /\ ~TruthyStr(last.used.watermark_text)
     /\ \/ last.x.failAt = 0
        \/ (1 < last.x.failAt /\ last.x.failAt < last.calls)) =>
        Succeeded

-----------------------------------------------------------------------------
(* C21 *)

\* C21: in every interleaving of concurrent calls to the same or different
\* handlers, no two calls write to the same output file path or to the same
\* temporary audio file path.
C21_NoSharedWritePath ==
    \A t \in Threads : \A u \in Threads \ {t} :
        inflight[t].wrote \cap inflight[u].wrote = {}

\* C21 witness: two concurrent calls of the same video handler have both
\* finished, each having written its own temporary audio file and its own
\* output file.
C21_Witness ==
    \E t \in Threads : \E u \in Threads \ {t} :
        /\ inflight[t].h = "Merge" /\ inflight[u].h = "Merge"
        /\ inflight[t].pc = "done" /\ inflight[u].pc = "done"
        /\ inflight[t].wrote = {inflight[t].tmp, inflight[t].out}
        /\ inflight[u].wrote = {inflight[u].tmp, inflight[u].out}
        /\ inflight[t].wrote \cap inflight[u].wrote = {}

-----------------------------------------------------------------------------
(* C24 *)

\* C24: in every interleaving of concurrent GenerateImage calls, the
\* image-generation request of each call carries the api_key that call
\* resolved.
C24_RequestUsesOwnKey ==
    \A t \in Threads :
        inflight[t].sent # StrNull => inflight[t].sent = inflight[t].api_key

====
